---- MODULE Spec2Model ----
(***************************************************************************)
(* Model of main.py: the recursive and the queue-based construction of a   *)
(* binary tree, and the timing harness that measures them.                 *)
(*                                                                         *)
(* gen_bin_tree_recursive is modelled by its call stack (one frame per     *)
(* active call), gen_bin_tree_iterative by its loop (one step per          *)
(* iteration), benchmark by the trials of timeit.repeat.                   *)
(***************************************************************************)
EXTENDS Integers, Sequences, FiniteSets, Bags, TLC

VARIABLES
    pc,         \* where control is: "idle", "rec", "iter", "returned", "raised",
                \* "bench", "done", "failed"
    func,       \* the builder being called: "rec" or "iter"
    args,       \* the arguments of the call: height, root, l_b, r_b
    stack,      \* gen_bin_tree_recursive: the active calls, outermost first
    out,        \* the value returned by the call that returned last
    tree,       \* gen_bin_tree_iterative: the local list tree
    queue,      \* gen_bin_tree_iterative: the local list queue
    pops,       \* history: queue.pop(0) executed by the running call
    expanded,   \* history: pops whose entry had h > 0
    log,        \* history: the completed calls, in order
    number,     \* benchmark: calls per trial
    repeat,     \* benchmark: trials
    times,      \* benchmark: the list returned by timeit.repeat, so far
    calls,      \* benchmark: calls made in the running trial
    trialCalls, \* history: calls made in each finished trial
    result      \* benchmark: the value returned

vars == <<pc, func, args, stack, out, tree, queue, pops, expanded, log,
          number, repeat, times, calls, trialCalls, result>>

builderVars == <<stack, out, tree, queue, pops, expanded>>
benchVars == <<number, repeat, times, calls, trialCalls, result>>

-----------------------------------------------------------------------------
(* Bounds of the model.  RecursionLimit stands for the interpreter's       *)
(* recursion limit, scaled down: it stays above MaxHeight + 1, the deepest *)
(* stack a call with height >= 0 needs, so only a call with height < 0     *)
(* meets it.                                                               *)

MaxHeight == 3
MaxNeg == 2
RecursionLimit == 5
MaxCalls == 3
MaxNumber == 2
MaxRepeat == 2
MaxTick == 2

-----------------------------------------------------------------------------
(* Inputs. *)

Heights == (0 - MaxNeg)..MaxHeight
Roots == {-2, 0, 7}
Fns == {"mul3", "sub4", "inc"}
Builders == {"rec", "iter"}

DefaultLb == "mul3"
DefaultRb == "sub4"

\* Calling a child-value function: lambda x: x * 3, lambda x: x - 4, and a
\* caller-supplied lambda x: x + 1.
Apply(f, x) ==
    CASE f = "mul3" -> x * 3
      [] f = "sub4" -> x - 4
      [] f = "inc" -> x + 1

None == <<>>

-----------------------------------------------------------------------------
(* gen_bin_tree_recursive *)

\* A new call: its parameters, and where it is ("start": line 19, "left":
\* inside the call of line 22, "right": inside the call of line 23).
Frame(height, root, l_b, r_b) ==
    [height |-> height, root |-> root, l_b |-> l_b, r_b |-> r_b,
     at |-> "start", left_leaf |-> None]

Top == stack[Len(stack)]
Caller == SubSeq(stack, 1, Len(stack) - 1)

\* the base case taken for every height <= 0
IsBaseOrBelow(height) == height <= 0

\* line 19
IsBase(height) == height = 0

\* line 20
Leaf(root) == root :> <<>>

\* the subtrees in the other order
NodeSwapped(root, left_leaf, right_leaf) == root :> <<right_leaf, left_leaf>>

\* lines 25-27
Node(root, left_leaf, right_leaf) == root :> <<left_leaf, right_leaf>>

\* The calls of lines 22 and 23 pass two arguments: the callee's l_b and r_b
\* are the defaults of lines 6-7.
LeftCallWithRb(f) == Frame(f.height - 1, Apply(f.r_b, f.root), DefaultLb, DefaultRb)
LeftCall(f) == Frame(f.height - 1, Apply(f.l_b, f.root), DefaultLb, DefaultRb)
RightCall(f) == Frame(f.height - 1, Apply(f.r_b, f.root), DefaultLb, DefaultRb)

\* A call returns value v: to its caller, or to whoever called the builder.
ReturnValue(v) ==
    /\ out' = v
    /\ stack' = Caller
    /\ pc' = IF Len(stack) = 1 THEN "returned" ELSE "rec"

RecBase ==
    /\ pc = "rec"
    /\ Top.at = "start"
    /\ IsBase(Top.height)
    /\ ReturnValue(Leaf(Top.root))
    /\ UNCHANGED <<func, args, tree, queue, pops, expanded, log, benchVars>>

RecCallLeft ==
    /\ pc = "rec"
    /\ Top.at = "start"
    /\ ~IsBase(Top.height)
    /\ Len(stack) < RecursionLimit
    /\ stack' = Append([stack EXCEPT ![Len(stack)].at = "left"], LeftCall(Top))
    /\ UNCHANGED <<pc, func, args, out, tree, queue, pops, expanded, log, benchVars>>

RecCallRight ==
    /\ pc = "rec"
    /\ Top.at = "left"
    /\ Len(stack) < RecursionLimit
    /\ stack' = Append([stack EXCEPT ![Len(stack)].at = "right",
                                     ![Len(stack)].left_leaf = out],
                       RightCall(Top))
    /\ UNCHANGED <<pc, func, args, out, tree, queue, pops, expanded, log, benchVars>>

RecReturn ==
    /\ pc = "rec"
    /\ Top.at = "right"
    /\ ReturnValue(Node(Top.root, Top.left_leaf, out))
    /\ UNCHANGED <<func, args, tree, queue, pops, expanded, log, benchVars>>

\* The interpreter refuses a call deeper than its recursion limit: the
\* RecursionError unwinds every active call.
RecursionError ==
    /\ pc = "rec"
    /\ \/ Top.at = "start" /\ ~IsBase(Top.height)
       \/ Top.at = "left"
    /\ Len(stack) >= RecursionLimit
    /\ stack' = <<>>
    /\ pc' = "raised"
    /\ UNCHANGED <<func, args, out, tree, queue, pops, expanded, log, benchVars>>

-----------------------------------------------------------------------------
(* gen_bin_tree_iterative *)

\* entries of remaining height 1 not expanded
ExpandsAboveOne(h) == h > 1

\* entries of remaining height 0 expanded
ExpandsAtZero(h) == h >= 0

\* line 49
Expands(h) == h > 0

\* lines 52-53
Triple(v) == <<v, <<>>, <<>>>>

\* lines 50-51
LeftOf(l_b, current) == Apply(l_b, current)
RightOf(r_b, current) == Apply(r_b, current)

\* lines 44-45
InitTree(root) == <<root>>
InitQueue(root, height) == <<<<root, height>>>>

\* lines 52-53
Appended(t, left, right) == t \o <<Triple(left), Triple(right)>>

\* the children put at the front of the worklist
PushedFront(q, left, right, h) == <<<<left, h - 1>>, <<right, h - 1>>>> \o Tail(q)

\* line 48 followed by lines 54-55
Pushed(q, left, right, h) == Tail(q) \o <<<<left, h - 1>>, <<right, h - 1>>>>

\* One iteration of the while loop, lines 47-55.
IterStep ==
    /\ pc = "iter"
    /\ queue # <<>>
    /\ LET current == Head(queue)[1]
           h == Head(queue)[2]
           left == LeftOf(args.l_b, current)
           right == RightOf(args.r_b, current)
       IN  IF Expands(h)
           THEN /\ tree' = Appended(tree, left, right)
                /\ queue' = Pushed(queue, left, right, h)
                /\ expanded' = expanded + 1
           ELSE /\ tree' = tree
                /\ queue' = Tail(queue)
                /\ expanded' = expanded
    /\ pops' = pops + 1
    /\ UNCHANGED <<pc, func, args, stack, out, log, benchVars>>

\* The loop condition fails, line 57.
IterReturn ==
    /\ pc = "iter"
    /\ queue = <<>>
    /\ out' = tree
    /\ pc' = "returned"
    /\ UNCHANGED <<func, args, stack, tree, queue, pops, expanded, log, benchVars>>

-----------------------------------------------------------------------------
(* Calling a builder. *)

\* Entering gen_bin_tree_recursive(height, root, l_b, r_b).
EnterRecursive(a) ==
    /\ stack' = <<Frame(a.height, a.root, a.l_b, a.r_b)>>
    /\ UNCHANGED <<out, tree, queue, pops, expanded>>

\* the list of an earlier call kept
EnterTreeKept(t, root) == t \o <<root>>

\* Entering gen_bin_tree_iterative: lines 44-45 make its locals.
EnterTree(t, root) == InitTree(root)

EnterIterative(a) ==
    /\ tree' = EnterTree(tree, a.root)
    /\ queue' = InitQueue(a.root, a.height)
    /\ pops' = 0
    /\ expanded' = 0
    /\ UNCHANGED <<stack, out>>

Entry(f, ok, v) == [func |-> f, ok |-> ok, out |-> v]

CallRecursive ==
    /\ pc = "idle"
    /\ Len(log) < MaxCalls
    /\ func' = "rec"
    /\ pc' = "rec"
    /\ EnterRecursive(args)
    /\ UNCHANGED <<args, log, benchVars>>

CallIterative ==
    /\ pc = "idle"
    /\ Len(log) < MaxCalls
    /\ func' = "iter"
    /\ pc' = "iter"
    /\ EnterIterative(args)
    /\ UNCHANGED <<args, log, benchVars>>

Returned ==
    /\ pc = "returned"
    /\ log' = Append(log, Entry(func, TRUE, out))
    /\ pc' = "idle"
    /\ UNCHANGED <<func, args, builderVars, benchVars>>

Raised ==
    /\ pc = "raised"
    /\ log' = Append(log, Entry(func, FALSE, None))
    /\ pc' = "idle"
    /\ UNCHANGED <<func, args, builderVars, benchVars>>

Init ==
    /\ pc = "idle"
    /\ func = "rec"
    /\ args \in [height : Heights, root : Roots, l_b : Fns, r_b : Fns]
    /\ stack = <<>>
    /\ out = None
    /\ tree = <<>>
    /\ queue = <<>>
    /\ pops = 0
    /\ expanded = 0
    /\ log = <<>>
    /\ number = 0
    /\ repeat = 0
    /\ times = <<>>
    /\ calls = 0
    /\ trialCalls = <<>>
    /\ result = 0

Next ==
    \/ CallRecursive
    \/ CallIterative
    \/ RecBase
    \/ RecCallLeft
    \/ RecCallRight
    \/ RecReturn
    \/ RecursionError
    \/ IterStep
    \/ IterReturn
    \/ Returned
    \/ Raised

Spec == Init /\ [][Next]_vars

-----------------------------------------------------------------------------
(* benchmark: timeit.repeat(lambda: func(height, root), number, repeat)    *)
(* makes repeat trials; a trial calls the lambda number times and appends  *)
(* the elapsed time of the whole trial to the list it returns.             *)

\* The elapsed time of a trial, in clock ticks: the timer is monotonic.
Ticks == 0..MaxTick

RECURSIVE MaxOf(_)
\* the largest element
MaxOf(ts) ==
    IF Len(ts) = 1 THEN ts[1]
    ELSE LET m == MaxOf(Tail(ts)) IN IF m > Head(ts) THEN m ELSE Head(ts)

RECURSIVE MinOf(_)
\* min(times), line 75, for a list that is not empty
MinOf(ts) ==
    IF Len(ts) = 1 THEN ts[1]
    ELSE LET m == MinOf(Tail(ts)) IN IF m < Head(ts) THEN m ELSE Head(ts)

\* line 74: the lambda calls func(height, root), with the default l_b and r_b
BenchCall ==
    /\ pc = "bench"
    /\ Len(times) < repeat
    /\ calls < number
    /\ \/ /\ func = "rec"
          /\ pc' = "rec"
          /\ EnterRecursive(args)
       \/ /\ func = "iter"
          /\ pc' = "iter"
          /\ EnterIterative(args)
    /\ UNCHANGED <<func, args, log, benchVars>>

\* the lambda returns: the tree is dropped
BenchCallReturn ==
    /\ pc = "returned"
    /\ calls' = calls + 1
    /\ pc' = "bench"
    /\ UNCHANGED <<func, args, builderVars, log, number, repeat, times, trialCalls, result>>

\* an exception of the builder is not caught: it leaves benchmark
BenchCallRaise ==
    /\ pc = "raised"
    /\ pc' = "failed"
    /\ UNCHANGED <<func, args, builderVars, log, benchVars>>

\* a trial ends: its elapsed time is recorded
BenchTrialEnd ==
    /\ pc = "bench"
    /\ Len(times) < repeat
    /\ calls = number
    /\ \E t \in Ticks : times' = Append(times, t)
    /\ trialCalls' = Append(trialCalls, calls)
    /\ calls' = 0
    /\ UNCHANGED <<pc, func, args, builderVars, log, number, repeat, result>>

\* line 75
BenchReturn ==
    /\ pc = "bench"
    /\ Len(times) = repeat
    /\ times # <<>>
    /\ result' = MinOf(times)
    /\ pc' = "done"
    /\ UNCHANGED <<func, args, builderVars, log, number, repeat, times, calls, trialCalls>>

\* line 75: min of an empty list raises ValueError
BenchValueError ==
    /\ pc = "bench"
    /\ Len(times) = repeat
    /\ times = <<>>
    /\ pc' = "failed"
    /\ UNCHANGED <<func, args, builderVars, log, benchVars>>

BenchInit ==
    /\ pc = "bench"
    /\ func \in Builders
    /\ args \in [height : Heights, root : Roots, l_b : {DefaultLb}, r_b : {DefaultRb}]
    /\ stack = <<>>
    /\ out = None
    /\ tree = <<>>
    /\ queue = <<>>
    /\ pops = 0
    /\ expanded = 0
    /\ log = <<>>
    /\ number \in 0..MaxNumber
    /\ repeat \in 0..MaxRepeat
    /\ times = <<>>
    /\ calls = 0
    /\ trialCalls = <<>>
    /\ result = 0

BenchNext ==
    \/ BenchCall
    \/ BenchCallReturn
    \/ BenchCallRaise
    \/ BenchTrialEnd
    \/ BenchReturn
    \/ BenchValueError
    \/ RecBase
    \/ RecCallLeft
    \/ RecCallRight
    \/ RecReturn
    \/ RecursionError
    \/ IterStep
    \/ IterReturn

SpecBench == BenchInit /\ [][BenchNext]_vars

-----------------------------------------------------------------------------
(* Reading the structures the builders return. *)

\* 2^(height+1) - 1: the nodes of a full binary tree of the given height
Nodes(height) == 2 ^ (height + 1) - 1

\* the key of a one-key mapping
Key(t) == CHOOSE k \in DOMAIN t : TRUE

RECURSIVE BagOf(_)
\* the multiset of the elements of a sequence
BagOf(s) ==
    IF s = <<>> THEN EmptyBag ELSE SetToBag({Head(s)}) (+) BagOf(Tail(s))

RECURSIVE Preorder(_)
\* the node values of a nested mapping, each node before its subtrees
Preorder(t) ==
    LET kids == t[Key(t)]
    IN  IF kids = <<>> THEN <<Key(t)>>
        ELSE <<Key(t)>> \o Preorder(kids[1]) \o Preorder(kids[2])

RECURSIVE LevelRec(_, _)
\* the node values at depth d of a nested mapping, left to right
LevelRec(t, d) ==
    LET kids == t[Key(t)]
    IN  IF d = 0 THEN <<Key(t)>>
        ELSE IF kids = <<>> THEN <<>>
        ELSE LevelRec(kids[1], d - 1) \o LevelRec(kids[2], d - 1)

\* the node value at (0-based) index i of the list of the iterative builder:
\* the bare root at index 0, the first element of a triple elsewhere
ValueAt(t, i) == IF i = 0 THEN t[1] ELSE t[i + 1][1]

IterValues(t) == [i \in 1..Len(t) |-> ValueAt(t, i - 1)]

\* the node values at (0-based) indices 2^d - 1 .. 2^(d+1) - 2
LevelIter(t, d) == [k \in 1..(2 ^ d) |-> ValueAt(t, 2 ^ d - 2 + k)]

RECURSIVE WellFormed(_, _)
\* a mapping built with remaining height k: one key, no subtrees at k = 0,
\* two subtrees built with k - 1 otherwise
WellFormed(t, k) ==
    /\ Cardinality(DOMAIN t) = 1
    /\ LET kids == t[Key(t)]
       IN  IF k = 0 THEN kids = <<>>
           ELSE /\ Len(kids) = 2
                /\ WellFormed(kids[1], k - 1)
                /\ WellFormed(kids[2], k - 1)

RECURSIVE UsesFns(_, _, _)
\* every node that is not a leaf has the subtrees rooted at l_b(v) and r_b(v)
UsesFns(t, l_b, r_b) ==
    LET v == Key(t)
        kids == t[v]
    IN  \/ kids = <<>>
        \/ /\ Key(kids[1]) = Apply(l_b, v)
           /\ Key(kids[2]) = Apply(r_b, v)
           /\ UsesFns(kids[1], l_b, r_b)
           /\ UsesFns(kids[2], l_b, r_b)

RECURSIVE Owed(_)
\* the pops a worklist still causes: 2^(h+1) - 1 for an entry of remaining height h
Owed(q) == IF q = <<>> THEN 0 ELSE Nodes(Head(q)[2]) + Owed(Tail(q))

\* the completed calls of a builder that returned a value
ReturnedBy(f) == {i \in DOMAIN log : log[i].func = f /\ log[i].ok}

DefaultFns == args.l_b = DefaultLb /\ args.r_b = DefaultRb

\* the loop of gen_bin_tree_iterative is at the head of an iteration
AtLoopHead == pc = "iter"

-----------------------------------------------------------------------------
(* The claims. *)

\* C1: with the default child functions and height >= 0, the multiset of the
\* node values of the recursive builder's result equals the multiset of the
\* node values of the iterative builder's result (the bare root and the first
\* element of every triple).
C1_SameMultiset ==
    (args.height >= 0 /\ DefaultFns) =>
        \A i \in ReturnedBy("rec") : \A j \in ReturnedBy("iter") :
            BagOf(Preorder(log[i].out)) = BagOf(IterValues(log[j].out))

\* both builders have returned for height 2, root 0 (values repeat)
C1_Witness ==
    /\ args.height = 2 /\ args.root = 0 /\ DefaultFns
    /\ ReturnedBy("rec") # {} /\ ReturnedBy("iter") # {}

\* C2: for height >= 0 the nested mapping of the recursive builder holds
\* exactly 2^(height+1) - 1 nodes and the list of the iterative builder has
\* exactly 2^(height+1) - 1 entries.
C2_NodeCount ==
    args.height >= 0 =>
        /\ \A i \in ReturnedBy("rec") : Len(Preorder(log[i].out)) = Nodes(args.height)
        /\ \A j \in ReturnedBy("iter") : Len(log[j].out) = Nodes(args.height)

C2_Witness ==
    /\ args.height = 2
    /\ ReturnedBy("rec") # {} /\ ReturnedBy("iter") # {}

\* C3: for any l_b and r_b passed to the recursive builder and height >= 1,
\* every node of the result that is not a leaf, at every depth, has its
\* subtrees rooted at l_b(v) and r_b(v).
C3_CallerFnsAtEveryLevel ==
    args.height >= 1 =>
        \A i \in ReturnedBy("rec") : UsesFns(log[i].out, args.l_b, args.r_b)

\* C4: for height >= 0 the loop of the iterative builder ends after exactly
\* 2^(height+1) - 1 pops: the pops made and the nodes still owed by the
\* worklist (2^(h+1) - 1 for an entry of remaining height h) always add up
\* to 2^(height+1) - 1, so the worklist is empty exactly when that many pops
\* were made.
C4_DrainsInNodeCountPops ==
    (func = "iter" /\ pc \in {"iter", "returned"} /\ args.height >= 0) =>
        /\ \A k \in DOMAIN queue : queue[k][2] >= 0
        /\ pops + Owed(queue) = Nodes(args.height)
        /\ (queue = <<>>) <=> (pops = Nodes(args.height))
        /\ (pc = "returned") => (pops = Nodes(args.height))

C4_Witness ==
    /\ func = "iter" /\ pc = "returned" /\ args.height = 2 /\ pops = 7

\* C6: in the result of the recursive builder for height >= 0 every mapping
\* has one key, a node built with remaining height 0 maps to the empty
\* sequence and a node built with remaining height k > 0 to two subtrees
\* built with k - 1; height 0, root 7 gives {7: []} and height 1, root 7
\* (default functions) gives {7: [{21: []}, {3: []}]}.
C6_RecursiveShape ==
    args.height >= 0 =>
        \A i \in ReturnedBy("rec") :
            /\ WellFormed(log[i].out, args.height)
            /\ (args.height = 0 /\ args.root = 7) => log[i].out = (7 :> <<>>)
            /\ (args.height = 1 /\ args.root = 7 /\ DefaultFns) =>
                   log[i].out = (7 :> <<(21 :> <<>>), (3 :> <<>>)>>)

C6_Witness ==
    /\ args.height = 1 /\ args.root = 7 /\ DefaultFns
    /\ ReturnedBy("rec") # {}

\* C8: two calls of the same builder with the same arguments return the
\* same output, whatever builder calls were made in between.
C8_Deterministic ==
    \A i, j \in DOMAIN log :
        log[i].func = log[j].func =>
            /\ log[i].ok = log[j].ok
            /\ log[i].ok => log[i].out = log[j].out

\* iterative, recursive, iterative: the first and the last call agree
C8_Witness ==
    /\ Len(log) = 3 /\ args.height = 2
    /\ log[1].func = "iter" /\ log[2].func = "rec" /\ log[3].func = "iter"

\* C9: at the head of every iteration of the loop of the iterative builder,
\* for height >= 0: every worklist entry has remaining height in 0..height,
\* remaining heights do not increase from front to back and differ by at
\* most 1, the worklist holds at most 2^height entries, and
\* len(tree) = 1 + 2 * (pops of an entry with remaining height > 0).
C9_LoopInvariant ==
    (AtLoopHead /\ args.height >= 0) =>
        /\ \A k \in DOMAIN queue : queue[k][2] \in 0..args.height
        /\ \A k, m \in DOMAIN queue : k < m => queue[k][2] >= queue[m][2]
        /\ \A k, m \in DOMAIN queue : queue[k][2] - queue[m][2] <= 1
        /\ Len(queue) <= 2 ^ args.height
        /\ Len(tree) = 1 + 2 * expanded

\* the worklist holds entries of two levels
C9_Witness ==
    /\ AtLoopHead /\ args.height = 2
    /\ Len(queue) = 3 /\ queue[1][2] = 1 /\ queue[3][2] = 0

\* C10: for height < 0 the iterative builder makes a single pop and returns
\* [root]; the recursive builder never reaches its base case: the remaining
\* height of each nested call is one less than its caller's, never 0, and
\* the call never returns a value.
C10_NegativeHeight ==
    args.height < 0 =>
        /\ (func = "iter" /\ pc \in {"iter", "returned"}) =>
               /\ pops <= 1
               /\ pops = 1 => (queue = <<>> /\ tree = <<args.root>>)
        /\ \A j \in DOMAIN log : log[j].func = "iter" =>
               (log[j].ok /\ log[j].out = <<args.root>>)
        /\ \A k \in DOMAIN stack :
               stack[k].height = args.height - (k - 1) /\ ~IsBase(stack[k].height)
        /\ \A i \in DOMAIN log : log[i].func = "rec" => ~log[i].ok

C10_Witness ==
    /\ args.height < 0
    /\ \E i, j \in DOMAIN log : log[i].func = "rec" /\ log[j].func = "iter"

\* C5: for height >= 0 the list of the iterative builder is the level-order
\* listing of the tree: index 0 holds the bare root; every index i >= 1
\* holds [v, [], []] with v = l_b(p) for odd i and v = r_b(p) for even i, p
\* the node value at index (i-1) div 2; the values at indices
\* 2^d - 1 .. 2^(d+1) - 2 are, as a multiset, the values at depth d of the
\* tree of the recursive builder; height 1, root 7 (default functions) gives
\* [7, [21, [], []], [3, [], []]].
C5_LevelOrder ==
    args.height >= 0 =>
        \A j \in ReturnedBy("iter") :
            LET t == log[j].out
            IN  /\ t[1] = args.root
                /\ Len(t) = Nodes(args.height)
                /\ \A i \in 1..(Len(t) - 1) :
                       LET p == ValueAt(t, (i - 1) \div 2)
                           v == IF i % 2 = 1 THEN Apply(args.l_b, p)
                                ELSE Apply(args.r_b, p)
                       IN  t[i + 1] = <<v, <<>>, <<>>>>
                /\ \A i \in ReturnedBy("rec") : \A d \in 0..args.height :
                       BagOf(LevelIter(t, d)) = BagOf(LevelRec(log[i].out, d))
                /\ (args.height = 1 /\ args.root = 7 /\ DefaultFns) =>
                       t = <<7, <<21, <<>>, <<>>>>, <<3, <<>>, <<>>>>>>

\* The part of C5 that the code satisfies: the index structure for every
\* function pair, the per-level multisets for the default functions.
C5_LevelOrderDefaults ==
    args.height >= 0 =>
        \A j \in ReturnedBy("iter") :
            LET t == log[j].out
            IN  /\ t[1] = args.root
                /\ Len(t) = Nodes(args.height)
                /\ \A i \in 1..(Len(t) - 1) :
                       LET p == ValueAt(t, (i - 1) \div 2)
                           v == IF i % 2 = 1 THEN Apply(args.l_b, p)
                                ELSE Apply(args.r_b, p)
                       IN  t[i + 1] = <<v, <<>>, <<>>>>
                /\ DefaultFns =>
                       \A i \in ReturnedBy("rec") : \A d \in 0..args.height :
                           BagOf(LevelIter(t, d)) = BagOf(LevelRec(log[i].out, d))
                /\ (args.height = 1 /\ args.root = 7 /\ DefaultFns) =>
                       t = <<7, <<21, <<>>, <<>>>>, <<3, <<>>, <<>>>>>>

\* C7: benchmark makes repeat trials of number calls each and returns the
\* minimum of the trial times: one of them, not negative, and at most every
\* trial time.
C7_MinimumOfTrials ==
    pc = "done" =>
        /\ Len(times) = repeat
        /\ Len(trialCalls) = repeat
        /\ \A k \in DOMAIN trialCalls : trialCalls[k] = number
        /\ \E k \in DOMAIN times : result = times[k]
        /\ result >= 0
        /\ \A k \in DOMAIN times : result <= times[k]

\* two trials of two calls, the second trial the faster one
C7_Witness ==
    /\ pc = "done" /\ number = 2 /\ repeat = 2
    /\ times = <<2, 1>> /\ result = 1

====
